---- MODULE Spec2Model ----
(***************************************************************************)
(* Model of project_structure.py: create_project_structure(structure)     *)
(* walks a mapping root -> list of relative paths and creates directories *)
(* (os.makedirs, exist_ok=True) and empty files (open(path, "w")) on a    *)
(* POSIX filesystem.                                                       *)
(*                                                                         *)
(* Path strings are sequences of one-character strings, so that           *)
(* os.path.join, str.endswith, os.path.dirname and os.path.split are      *)
(* computed character by character.  The filesystem is a function from    *)
(* absolute paths (sequences of components) to nodes.  The only errors    *)
(* the filesystem raises are the structural ones (ENOENT, ENOTDIR,        *)
(* EEXIST, EISDIR); permissions and disk space are not modelled.          *)
(***************************************************************************)
EXTENDS Integers, Sequences, FiniteSets, TLC

(* ------------------------------ bounds -------------------------------- *)
\* total number of entries over all roots of the mapping
MaxEntries == 2
\* size in bytes of the files that exist before the first run
PreSize == 1
\* number of calls of create_project_structure in one behaviour
MaxRuns == 2

(* ------------------------------ strings ------------------------------- *)
sep == "/"
curdir == "."

\* str.endswith
EndsWith(s, c) == Len(s) > 0 /\ s[Len(s)] = c

\* str.startswith
StartsWith(s, c) == Len(s) > 0 /\ s[1] = c

\* str.rfind(sep) + 1 : index (1-based) of the last separator, 0 if none
RFindSep(s) ==
    IF \E i \in 1..Len(s) : s[i] = sep
    THEN CHOOSE i \in 1..Len(s) : s[i] = sep /\ \A j \in (i+1)..Len(s) : s[j] # sep
    ELSE 0

\* head != sep * len(head)
AllSep(s) == \A i \in 1..Len(s) : s[i] = sep

\* str.rstrip(sep)
RECURSIVE RStripSep(_)
RStripSep(s) ==
    IF EndsWith(s, sep) THEN RStripSep(SubSeq(s, 1, Len(s) - 1)) ELSE s

\* posixpath.split: <<head, tail>>
Split(p) ==
    LET i    == RFindSep(p)
        head == SubSeq(p, 1, i)
        tail == SubSeq(p, i + 1, Len(p))
    IN  << IF head # <<>> /\ ~AllSep(head) THEN RStripSep(head) ELSE head, tail >>

\* posixpath.dirname
Dirname(p) ==
    LET i    == RFindSep(p)
        head == SubSeq(p, 1, i)
    IN  IF head # <<>> /\ ~AllSep(head) THEN RStripSep(head) ELSE head

\* posixpath.join(a, b)
Join(a, b) ==
    IF StartsWith(b, sep) THEN b
    ELSE IF a = <<>> \/ EndsWith(a, sep) THEN a \o b
    ELSE a \o <<sep>> \o b

(* ---------------------------- filesystem ------------------------------ *)
\* components of a path string: maximal runs of non-separator characters
RECURSIVE Comps(_)
Comps(s) ==
    IF s = <<>> THEN <<>>
    ELSE IF s[1] = sep THEN Comps(Tail(s))
    ELSE LET n == IF \E i \in 1..Len(s) : s[i] = sep
                  THEN (CHOOSE i \in 1..Len(s) :
                            s[i] = sep /\ \A j \in 1..(i-1) : s[j] # sep) - 1
                  ELSE Len(s)
         IN  <<SubSeq(s, 1, n)>> \o Comps(SubSeq(s, n + 1, Len(s)))

\* the working directory of the process
Cwd == << <<"w">> >>

\* absolute location a path string names
Resolve(s) == (IF StartsWith(s, sep) THEN <<>> ELSE Cwd) \o Comps(s)

Dir == [kind |-> "dir", size |-> 0]
File(n) == [kind |-> "file", size |-> n]

IsDirAt(f, p) == p \in DOMAIN f /\ f[p].kind = "dir"
IsFileAt(f, p) == p \in DOMAIN f /\ f[p].kind = "file"

Parent(p) == SubSeq(p, 1, Len(p) - 1)

\* error of walking to the parent directory of location p, "ok" if none
WalkErr(f, p) ==
    IF \E k \in 0..(Len(p) - 1) : ~IsDirAt(f, SubSeq(p, 1, k))
    THEN LET k == CHOOSE k \in 0..(Len(p) - 1) :
                      /\ ~IsDirAt(f, SubSeq(p, 1, k))
                      /\ \A j \in 0..(k - 1) : IsDirAt(f, SubSeq(p, 1, j))
         IN  IF SubSeq(p, 1, k) \in DOMAIN f THEN "ENOTDIR" ELSE "ENOENT"
    ELSE "ok"

\* stat(2) as used by os.path.exists and os.path.isdir
StatErr(f, s) ==
    IF s = <<>> THEN "ENOENT"
    ELSE IF WalkErr(f, Resolve(s)) # "ok" THEN WalkErr(f, Resolve(s))
    ELSE IF Resolve(s) \notin DOMAIN f THEN "ENOENT"
    ELSE IF EndsWith(s, sep) /\ ~IsDirAt(f, Resolve(s)) THEN "ENOTDIR"
    ELSE "ok"

\* os.path.exists
Exists(f, s) == StatErr(f, s) = "ok"

\* os.path.isdir
IsDir(f, s) == StatErr(f, s) = "ok" /\ IsDirAt(f, Resolve(s))

\* the function f with location p set to node n
Put(f, p, n) == [q \in DOMAIN f \cup {p} |-> IF q = p THEN n ELSE f[q]]

Res(e, f) == [err |-> e, fs |-> f]

\* os.mkdir -> mkdir(2)
Mkdir(f, s) ==
    IF s = <<>> THEN Res("ENOENT", f)
    ELSE IF WalkErr(f, Resolve(s)) # "ok" THEN Res(WalkErr(f, Resolve(s)), f)
    ELSE IF Resolve(s) \in DOMAIN f THEN Res("EEXIST", f)
    ELSE Res("ok", Put(f, Resolve(s), Dir))

\* variant: mode "a", an existing file keeps its contents
OpenW_append(f, s) ==
    IF s = <<>> THEN Res("ENOENT", f)
    ELSE IF WalkErr(f, Resolve(s)) # "ok" THEN Res(WalkErr(f, Resolve(s)), f)
    ELSE IF IsDirAt(f, Resolve(s)) \/ EndsWith(s, sep) THEN Res("EISDIR", f)
    ELSE IF Resolve(s) \in DOMAIN f THEN Res("ok", f)
    ELSE Res("ok", Put(f, Resolve(s), File(0)))

\* variant: mode "x", an existing file is an error
OpenW_exclusive(f, s) ==
    IF s = <<>> THEN Res("ENOENT", f)
    ELSE IF WalkErr(f, Resolve(s)) # "ok" THEN Res(WalkErr(f, Resolve(s)), f)
    ELSE IF IsDirAt(f, Resolve(s)) \/ EndsWith(s, sep) THEN Res("EISDIR", f)
    ELSE IF Resolve(s) \in DOMAIN f THEN Res("EEXIST", f)
    ELSE Res("ok", Put(f, Resolve(s), File(0)))

\* open(path, "w") -> open(2) with O_WRONLY | O_CREAT | O_TRUNC, then close
OpenW(f, s) ==
    IF s = <<>> THEN Res("ENOENT", f)
    ELSE IF WalkErr(f, Resolve(s)) # "ok" THEN Res(WalkErr(f, Resolve(s)), f)
    ELSE IF IsDirAt(f, Resolve(s)) \/ EndsWith(s, sep) THEN Res("EISDIR", f)
    ELSE Res("ok", Put(f, Resolve(s), File(0)))

\* variant: exist_ok=False, an existing directory is an error
RECURSIVE MakeDirs_noExistOk(_, _)
MakeDirs_noExistOk(f, name) ==
    LET sp1    == Split(name)
        sp     == IF sp1[2] = <<>> THEN Split(sp1[1]) ELSE sp1
        head   == sp[1]
        tail   == sp[2]
        recur  == head # <<>> /\ tail # <<>> /\ ~Exists(f, head)
        inner  == MakeDirs_noExistOk(f, head)
        f1     == IF recur THEN inner.fs ELSE f
    IN  IF recur /\ inner.err \notin {"ok", "EEXIST"} THEN inner
        ELSE IF recur /\ tail = <<curdir>> THEN Res("ok", f1)
        ELSE Mkdir(f1, name)

\* variant: the leaf is created without its missing ancestors
MakeDirs_leafOnly(f, name) ==
    IF IsDir(f, name) THEN Res("ok", f)
    ELSE IF name = <<>> THEN Res("ENOENT", f)
    ELSE IF Resolve(name) \in DOMAIN f THEN Res("EEXIST", f)
    ELSE Res("ok", Put(f, Resolve(name), Dir))

\* variant: a regular file in the way is replaced by the directory
RECURSIVE MakeDirs_force(_, _)
MakeDirs_force(f, name) ==
    LET sp1    == Split(name)
        sp     == IF sp1[2] = <<>> THEN Split(sp1[1]) ELSE sp1
        head   == sp[1]
        tail   == sp[2]
        recur  == head # <<>> /\ tail # <<>> /\ ~Exists(f, head)
        inner  == MakeDirs_force(f, head)
        f1     == IF recur THEN inner.fs ELSE f
        made   == Mkdir(f1, name)
    IN  IF recur /\ inner.err \notin {"ok", "EEXIST"} THEN inner
        ELSE IF recur /\ tail = <<curdir>> THEN Res("ok", f1)
        ELSE IF made.err # "ok" /\ IsDir(f1, name) THEN Res("ok", f1)
        ELSE IF made.err = "EEXIST" THEN Res("ok", Put(f1, Resolve(name), Dir))
        ELSE made

\* os.makedirs(name, exist_ok=True)
RECURSIVE MakeDirs(_, _)
MakeDirs(f, name) ==
    LET sp1    == Split(name)
        sp     == IF sp1[2] = <<>> THEN Split(sp1[1]) ELSE sp1
        head   == sp[1]
        tail   == sp[2]
        recur  == head # <<>> /\ tail # <<>> /\ ~Exists(f, head)
        inner  == MakeDirs(f, head)
        f1     == IF recur THEN inner.fs ELSE f
        made   == Mkdir(f1, name)
    IN  IF recur /\ inner.err \notin {"ok", "EEXIST"} THEN inner
        ELSE IF recur /\ tail = <<curdir>> THEN Res("ok", f1)
        ELSE IF made.err # "ok" /\ IsDir(f1, name) THEN Res("ok", f1)
        ELSE made

(* ------------------------------ inputs -------------------------------- *)
\* keys of the mapping: a plain name, and a nested name that is also the
\* path of the entry "a" of the first
RootChoices == { <<"r">>, <<"r", "/", "a">> }

\* entries: empty, file, directory, nested file, nested directory
EntryChoices ==
    { <<>>, <<"a">>, <<"a", "/">>, <<"a", "/", "b">>, <<"a", "/", "b", "/">> }

SeqsUpTo(S, n) == UNION { [1..k -> S] : k \in 0..n }

\* mappings: an ordered sequence of (root, files) items with distinct roots
\* (a dict iterates in insertion order), at most MaxEntries entries in all
Structures ==
    UNION { UNION { UNION {
        { [i \in 1..k |->
             [root  |-> rs[i],
              files |-> SubSeq(all, (IF i = 1 THEN 0 ELSE cut[i-1]) + 1, cut[i])]] :
          cut \in { c \in [1..k -> 0..Len(all)] :
                      /\ \A i \in 1..k : \A j \in i..k : c[i] <= c[j]
                      /\ (k > 0 => c[k] = Len(all)) } } :
        all \in IF k = 0 THEN { <<>> } ELSE SeqsUpTo(EntryChoices, MaxEntries) } :
        rs \in { r \in [1..k -> RootChoices] :
                    \A i \in 1..k : \A j \in 1..k : r[i] = r[j] => i = j } } :
        k \in 0..Cardinality(RootChoices) }

\* the filesystem with nothing but the root directory and the working directory
EmptyFS == [p \in { SubSeq(Cwd, 1, k) : k \in 0..Len(Cwd) } |-> Dir]

\* locations that may be occupied before the first run
PreLocs ==
    { Cwd \o << <<"r">> >>,
      Cwd \o << <<"r">>, <<"a">> >>,
      Cwd \o << <<"r">>, <<"b">> >> }

\* what occupies them: a directory or a non-empty file
Nodes == { Dir, File(PreSize) }

\* every location except the root directory has a directory as its parent
WellFormed(f) ==
    /\ IsDirAt(f, <<>>)
    /\ \A p \in DOMAIN f : p # <<>> => IsDirAt(f, Parent(p))

InitFS ==
    { f \in UNION { { [p \in DOMAIN EmptyFS \cup D |->
                          IF p \in D THEN g[p] ELSE Dir] : g \in [D -> Nodes] } :
                    D \in SUBSET PreLocs } : WellFormed(f) }

(* ------------------------------- state -------------------------------- *)
VARIABLES
    structure,   \* the argument of create_project_structure
    fs,          \* the filesystem
    pc,          \* line about to execute: "makeroot", "entry", "open", "print"
    ri,          \* index of the current item of structure.items()
    ei,          \* index of the current file_path in files (0: none yet)
    status,      \* "running", "done" (returned) or "failed" (raised)
    printed,     \* number of messages printed by the current call
    processed,   \* <<ri, ei>> steps of the current call that completed
    steps,       \* number of steps the current call has taken
    run,         \* number of the current call
    fsStart,     \* the filesystem when the current call started
    log          \* outcome of the earlier calls

vars == <<structure, fs, pc, ri, ei, status, printed, processed, steps, run, fsStart, log>>

root == structure[ri].root
files == structure[ri].files
file_path == files[ei]
file_full_path == Join(root, file_path)

Pos(c, r, e) == [pc |-> c, ri |-> r, ei |-> e]

\* where the loops go first
StartPos(st) ==
    IF Len(st) = 0 THEN Pos("print", 0, 0) ELSE Pos("makeroot", 1, 0)

\* variant: the print is inside the outer loop
NextPos_printPerRoot(st, r, e) ==
    IF e < Len(st[r].files) THEN Pos("entry", r, e + 1)
    ELSE Pos("print", r, e)

\* where the loops go after step e of item r
NextPos(st, r, e) ==
    IF e < Len(st[r].files) THEN Pos("entry", r, e + 1)
    ELSE IF r < Len(st) THEN Pos("makeroot", r + 1, 0)
    ELSE Pos("print", r, e)

Init ==
    /\ structure \in Structures
    /\ fs \in InitFS
    /\ pc = StartPos(structure).pc
    /\ ri = StartPos(structure).ri
    /\ ei = StartPos(structure).ei
    /\ status = "running"
    /\ printed = 0
    /\ processed = {}
    /\ steps = 0
    /\ run = 1
    /\ fsStart = fs
    /\ log = <<>>

Goto(pos) == pc' = pos.pc /\ ri' = pos.ri /\ ei' = pos.ei

\* the step completed: go on
Continue(f, pos) ==
    /\ fs' = f
    /\ Goto(pos)
    /\ processed' = processed \cup { <<ri, ei>> }
    /\ steps' = steps + 1
    /\ UNCHANGED <<structure, status, printed, run, fsStart, log>>

\* variant: what the call created is removed when a step raises
Raise_rollback(f) ==
    /\ fs' = fsStart
    /\ status' = "failed"
    /\ steps' = steps + 1
    /\ UNCHANGED <<structure, pc, ri, ei, printed, processed, run, fsStart, log>>

\* the step raised: the exception leaves the function and ends the script
Raise(f) ==
    /\ fs' = f
    /\ status' = "failed"
    /\ steps' = steps + 1
    /\ UNCHANGED <<structure, pc, ri, ei, printed, processed, run, fsStart, log>>

\* variant: an error of os.makedirs(root) is swallowed
MakeRoot_swallow ==
    /\ status = "running" /\ pc = "makeroot"
    /\ Continue(MakeDirs(fs, root).fs, NextPos(structure, ri, 0))

\* line 31: os.makedirs(root, exist_ok=True)
MakeRoot ==
    /\ status = "running" /\ pc = "makeroot"
    /\ LET res == MakeDirs(fs, root)
       IN  IF res.err = "ok" THEN Continue(res.fs, NextPos(structure, ri, 0))
           ELSE Raise(res.fs)

\* lines 33-35: a directory entry
MakeDirEntry ==
    /\ status = "running" /\ pc = "entry"
    /\ EndsWith(file_full_path, sep)
    /\ LET res == MakeDirs(fs, file_full_path)
       IN  IF res.err = "ok" THEN Continue(res.fs, NextPos(structure, ri, ei))
           ELSE Raise(res.fs)

\* lines 33-37: a file entry, its parent directory
MakeParent ==
    /\ status = "running" /\ pc = "entry"
    /\ ~EndsWith(file_full_path, sep)
    /\ LET res == MakeDirs(fs, Dirname(file_full_path))
       IN  IF res.err = "ok"
           THEN /\ fs' = res.fs
                /\ pc' = "open"
                /\ steps' = steps + 1
                /\ UNCHANGED <<structure, ri, ei, status, printed, processed,
                               run, fsStart, log>>
           ELSE Raise(res.fs)

\* variant: the file is never opened
OpenFile_noCreate ==
    /\ status = "running" /\ pc = "open"
    /\ Continue(fs, NextPos(structure, ri, ei))

\* lines 38-39: with open(file_full_path, "w") as f: pass
OpenFile ==
    /\ status = "running" /\ pc = "open"
    /\ LET res == OpenW(fs, file_full_path)
       IN  IF res.err = "ok" THEN Continue(res.fs, NextPos(structure, ri, ei))
           ELSE Raise(res.fs)

\* variant: the message is written to a file in the working directory
PrintDone_toFile ==
    /\ status = "running" /\ pc = "print"
    /\ printed' = printed + 1
    /\ status' = "done"
    /\ steps' = steps + 1
    /\ fs' = Put(fs, Cwd \o << <<"log">> >>, File(1))
    /\ UNCHANGED <<structure, pc, ri, ei, processed, run, fsStart, log>>

\* line 40: print(...), then the function returns
PrintDone ==
    /\ status = "running" /\ pc = "print"
    /\ printed' = printed + 1
    /\ status' = "done"
    /\ steps' = steps + 1
    /\ UNCHANGED <<structure, fs, pc, ri, ei, processed, run, fsStart, log>>

\* line 43: the script is executed again with the same mapping
Rerun ==
    /\ status \in {"done", "failed"}
    /\ run < MaxRuns
    /\ run' = run + 1
    /\ log' = Append(log, [status |-> status, start |-> fsStart])
    /\ fsStart' = fs
    /\ status' = "running"
    /\ printed' = 0
    /\ processed' = {}
    /\ steps' = 0
    /\ Goto(StartPos(structure))
    /\ UNCHANGED <<structure, fs>>

Step == MakeRoot \/ MakeDirEntry \/ MakeParent \/ OpenFile \/ PrintDone

Next == Step \/ Rerun

Spec == Init /\ [][Next]_vars

(* ------------------------- derived definitions ------------------------ *)
\* the (item, entry) pairs of the mapping
Items == UNION { { <<r, e>> : e \in 1..Len(structure[r].files) } :
                 r \in 1..Len(structure) }

\* every step of a call: e = 0 is the creation of the root of item r
AllSteps == UNION { { <<r, e>> : e \in 0..Len(structure[r].files) } :
                    r \in 1..Len(structure) }

EntryOf(it) == structure[it[1]].files[it[2]]
FullOf(it) == Join(structure[it[1]].root, EntryOf(it))
LocOf(it) == Resolve(FullOf(it))

\* the directory the step at the current position has to ensure
EnsureTarget ==
    IF pc = "makeroot" THEN root
    ELSE IF EndsWith(file_full_path, sep) THEN file_full_path
    ELSE Dirname(file_full_path)

\* the error of the operation at the current position, "ok" if it succeeds
StepErr ==
    IF pc \in {"makeroot", "entry"} THEN MakeDirs(fs, EnsureTarget).err
    ELSE IF pc = "open" THEN OpenW(fs, file_full_path).err
    ELSE "ok"

SamePos == pc' = pc /\ ri' = ri /\ ei' = ei

\* every location of f is in g with the same node
Keeps(f, g) == \A p \in DOMAIN f : p \in DOMAIN g /\ g[p] = f[p]

Terminal == status \in {"done", "failed"}

(* ------------------------------ claims -------------------------------- *)
\* C1 as stated: after a successful run every join(root, entry) exists, and
\* it is a directory exactly when the ENTRY ends with '/', else a regular file.
C1_AsStated ==
    status = "done" =>
        \A it \in Items :
            /\ Exists(fs, FullOf(it))
            /\ IsDirAt(fs, LocOf(it)) <=> EndsWith(EntryOf(it), sep)
            /\ ~EndsWith(EntryOf(it), sep) => IsFileAt(fs, LocOf(it))

\* C1 (amended): after a successful run every join(root, entry) exists, and
\* it is a directory exactly when the JOINED PATH ends with '/', else a
\* regular file; for a non-empty entry that is when the entry ends with '/'.
C1_Completeness ==
    status = "done" =>
        \A it \in Items :
            /\ Exists(fs, FullOf(it))
            /\ IsDirAt(fs, LocOf(it)) <=> EndsWith(FullOf(it), sep)
            /\ ~EndsWith(FullOf(it), sep) => IsFileAt(fs, LocOf(it))
            /\ EntryOf(it) # <<>> =>
                  (EndsWith(FullOf(it), sep) <=> EndsWith(EntryOf(it), sep))

\* a successful run that created both a file entry and a directory entry
C1_Witness ==
    /\ status = "done"
    /\ \E it \in Items : /\ ~EndsWith(EntryOf(it), sep)
                         /\ IsFileAt(fs, LocOf(it))
                         /\ LocOf(it) \notin DOMAIN fsStart
    /\ \E it \in Items : /\ EndsWith(EntryOf(it), sep)
                         /\ IsDirAt(fs, LocOf(it))
                         /\ LocOf(it) \notin DOMAIN fsStart

\* C2 as stated: after a successful run every entry not ending with '/' is a
\* zero-byte regular file, whatever it held before the run.
C2_AsStated ==
    status = "done" =>
        \A it \in Items :
            ~EndsWith(EntryOf(it), sep) =>
                IsFileAt(fs, LocOf(it)) /\ fs[LocOf(it)].size = 0

\* C2 (amended): after a successful run every entry whose joined path does
\* not end with '/' is a zero-byte regular file, and every entry path that
\* was a non-empty regular file before the run has size 0.
C2_Truncation ==
    status = "done" =>
        \A it \in Items :
            /\ ~EndsWith(FullOf(it), sep) =>
                  IsFileAt(fs, LocOf(it)) /\ fs[LocOf(it)].size = 0
            /\ (IsFileAt(fsStart, LocOf(it)) /\ fsStart[LocOf(it)].size > 0) =>
                  IsFileAt(fs, LocOf(it)) /\ fs[LocOf(it)].size = 0

\* a successful run over an entry that was a non-empty file before the run
C2_Witness ==
    /\ status = "done"
    /\ \E it \in Items : /\ IsFileAt(fsStart, LocOf(it))
                         /\ fsStart[LocOf(it)].size > 0
                         /\ fs[LocOf(it)].size = 0

\* the filesystem the first call started from
FirstStart == IF run = 1 THEN fsStart ELSE log[1].start

\* every earlier call returned normally
EarlierDone == \A i \in 1..Len(log) : log[i].status = "done"

C4_RootFailure ==
    [][ /\ (status = "running" /\ pc = "makeroot" /\ StepErr # "ok") =>
              (status' = "failed" /\ fs' = fs /\ processed' = processed /\ SamePos)
        /\ (status = "failed" /\ pc = "makeroot" /\ run' = run) =>
              (status' = "failed" /\ fs' = fs /\ processed' = processed /\ SamePos)
      ]_vars

\* the root of an item with entries collides with a regular file: failed
C4_Witness ==
    /\ status = "failed" /\ pc = "makeroot"
    /\ Len(files) > 0
    /\ IsFileAt(fs, Resolve(root))
    /\ \A e \in 1..Len(files) : <<ri, e>> \notin processed

\* C5: when a step fails the call fails at that position; nothing that
\* exists is removed or changed by the failing step, and nothing happens
\* in the call afterwards (no later entry, no retry, no rollback).
C5_AbortNoRollback ==
    [][ /\ (status = "running" /\ StepErr # "ok") =>
              (status' = "failed" /\ Keeps(fs, fs') /\ processed' = processed /\ SamePos)
        /\ (status = "failed" /\ run' = run) => UNCHANGED vars
      ]_vars

\* a failed call that left a partial tree and unprocessed later steps
C5_Witness ==
    /\ status = "failed"
    /\ fs # fsStart
    /\ \E st \in AllSteps : st \notin processed /\ st # <<ri, ei>>
    /\ \E st \in AllSteps : st[1] > ri

\* the call is at a line of the function, with the item and the entry the
\* line works on: the step of that line can be taken
AtLine ==
    /\ pc \in {"makeroot", "entry", "open", "print"}
    /\ pc = "makeroot" => (ri \in 1..Len(structure) /\ ei = 0)
    /\ pc \in {"entry", "open"} =>
          (ri \in 1..Len(structure) /\ ei \in 1..Len(files))
    /\ pc = "open" => ~EndsWith(file_full_path, sep)
    /\ pc = "print" => processed = AllSteps

\* C6: every call ends, returned or failed (a running call is at a line whose
\* step can be taken, and a call takes at most one step per root, two per entry and
\* one to print); the message is printed exactly once in a call that
\* returns, after every step of every root completed, and never in a call
\* that failed.
C6_SingleConfirmation ==
    /\ printed \in {0, 1}
    /\ printed = 1 <=> status = "done"
    /\ printed = 1 => processed = AllSteps
    /\ status = "failed" => printed = 0
    /\ status = "running" => AtLine
    /\ steps <= Len(structure) + 2 * Cardinality(Items) + 1

\* a call over two roots returned and printed once
C6_Witness ==
    /\ status = "done" /\ printed = 1
    /\ Len(structure) = 2 /\ Cardinality(processed) >= 3

\* C7: a step that has to ensure a directory which already exists succeeds,
\* the call goes on to its next step, and the filesystem is left as it is.
C7_ExistsIsSuccess ==
    [][ (status = "running" /\ pc \in {"makeroot", "entry"}
           /\ IsDir(fs, EnsureTarget)) =>
            (status' = "running" /\ fs' = fs /\ ~SamePos) ]_vars

\* a call returned although its root existed before, with contents, and
\* those contents are still there
C7_Witness ==
    /\ status = "done" /\ Len(structure) >= 1
    /\ IsDir(fsStart, structure[1].root)
    /\ \E p \in DOMAIN fsStart :
          /\ Len(p) > Len(Resolve(structure[1].root))
          /\ SubSeq(p, 1, Len(Resolve(structure[1].root))) = Resolve(structure[1].root)
          /\ p \in DOMAIN fs /\ fs[p] = fsStart[p]

\* C8: a call with an empty mapping changes nothing in the filesystem,
\* processes nothing and does not fail.
C8_EmptyNoOp ==
    structure = <<>> =>
        /\ fs = FirstStart
        /\ processed = {}
        /\ status # "failed"

\* a call with an empty mapping returned, in a filesystem with files
C8_Witness ==
    /\ structure = <<>> /\ status = "done"
    /\ \E p \in DOMAIN fs : fs[p].kind = "file"

\* C9: whatever a call has created has a directory as its parent, in every
\* state; after a successful run every ancestor of every file entry is a
\* directory.
C9_ParentsFirst ==
    /\ \A p \in DOMAIN fs \ DOMAIN FirstStart : IsDirAt(fs, Parent(p))
    /\ status = "done" =>
          \A it \in Items :
              ~EndsWith(FullOf(it), sep) =>
                  \A k \in 0..(Len(LocOf(it)) - 1) :
                      IsDirAt(fs, SubSeq(LocOf(it), 1, k))

\* a successful run created a file two levels below a root that did not
\* exist before the run
C9_Witness ==
    /\ status = "done"
    /\ \E it \in Items :
          /\ IsFileAt(fs, LocOf(it))
          /\ Len(LocOf(it)) >= Len(Cwd) + 3
          /\ \A k \in (Len(Cwd) + 1)..Len(LocOf(it)) :
                SubSeq(LocOf(it), 1, k) \notin DOMAIN fsStart

\* locations of the entries that do not end with '/'
FileEntryLocs == { LocOf(it) : it \in { i \in Items : ~EndsWith(EntryOf(i), sep) } }

\* C10: no step removes a location or changes its kind, and the only change
\* to an existing file is that the file of a file entry becomes empty.
C10_Frame ==
    [][ \A p \in DOMAIN fs :
          /\ p \in DOMAIN fs'
          /\ fs'[p].kind = fs[p].kind
          /\ fs'[p] # fs[p] => (p \in FileEntryLocs /\ fs'[p] = File(0))
      ]_vars

\* a successful run emptied the file of an entry and left another
\* non-empty file, which is no entry, as it was
C10_Witness ==
    /\ status = "done"
    /\ \E p \in DOMAIN fsStart :
          /\ p \in FileEntryLocs /\ fsStart[p].kind = "file"
          /\ fsStart[p].size > 0 /\ fs[p] = File(0)
    /\ \E q \in DOMAIN fsStart :
          /\ q \notin FileEntryLocs /\ fsStart[q].kind = "file"
          /\ fsStart[q].size > 0 /\ fs[q] = fsStart[q]
====
